---- MODULE Spec2Model ----
(***************************************************************************)
(* A model of fortuna/calib_model/classification.py: the CalibClassifier   *)
(* constructor (object wiring) and calibrate (input validation by          *)
(* _check_output_dim followed by the call of _calibrate).                  *)
(***************************************************************************)
EXTENDS Integers, Sequences, FiniteSets, TLC

\* ------------------------------------------------------------------ bounds

\* The largest number of batches a data loader of the model yields.
MaxBatches == 2

\* ------------------------------------------------------------- input sets

\* Python's None as an object reference (a reference to an object is >= 1).
Null == 0

\* Target values (class labels) that occur in the data.
Labels == {0, 1}

\* The values x.shape[1:] takes.
Shapes == {"shape_a", "shape_b"}

\* The output dimensions a model can have.
OutputDims == {1, 2}

\* A user-supplied model, seen through the one thing this code asks of it: the
\* output dimension it produces for an input shape.
Models == [Shapes -> OutputDims]

\* Random seeds given to the constructor (0 is the default).
Seeds == {0, 1}

\* The targets of one batch: a batch of the model has at most one row.
BatchTargets == {<< >>} \cup {<<l>> : l \in Labels}

\* One batch (x, y): the input shape x.shape[1:] and the targets y.
Batches == [shape : Shapes, targets : BatchTargets]

RECURSIVE SeqsUpTo(_, _)
\* All sequences over S of length at most n.
SeqsUpTo(S, n) ==
    IF n = 0 THEN {<< >>}
    ELSE LET shorter == SeqsUpTo(S, n - 1)
         IN  shorter \cup {Append(q, e) : q \in {r \in shorter : Len(r) = n - 1}, e \in S}

\* A data loader, as the sequence of batches that iterating it yields.
DataLoaders == SeqsUpTo(Batches, MaxBatches)

\* Optional[DataLoader]: << >> is None, <<dl>> is the loader dl.
NoneLoader == << >>
Some(dl) == <<dl>>
OptionalDataLoaders == {NoneLoader} \cup {Some(dl) : dl \in DataLoaders}

\* config.monitor.uncertainty_fn: None or a user function.
UncertaintyFns == {"None", "user_uncertainty_fn"}

VARIABLES
    pc,                 \* the position of the program
    model,              \* constructor argument model
    seed,               \* constructor argument seed
    heap,               \* the objects constructed so far; a reference is an index
    self,               \* the attributes of the CalibClassifier instance
    calib_data_loader,  \* calibrate argument
    val_data_loader,    \* calibrate argument (Optional)
    config,             \* calibrate argument, as config.monitor.uncertainty_fn
    log,                \* the calls calibrate has made, in order
    calibrate_args,     \* the keyword arguments _calibrate was called with
    result              \* what the last calibrate call returned or raised

vars == <<pc, model, seed, heap, self, calib_data_loader, val_data_loader,
          config, log, calibrate_args, result>>

ctor_vars == <<model, seed, heap, self>>
call_vars == <<calib_data_loader, val_data_loader, config, log, calibrate_args, result>>

\* ------------------------------------------------------------ constructor

\* ClassificationModelManager(model)
ClassificationModelManager(m) == [cls |-> "ClassificationModelManager", model |-> m]

\* ClassificationProbOutputLayer()
ClassificationProbOutputLayer == [cls |-> "ClassificationProbOutputLayer"]

\* ClassificationLikelihood(model_manager=, prob_output_layer=, output_calib_manager=)
ClassificationLikelihood(mm, pol, ocm) ==
    [cls |-> "ClassificationLikelihood", model_manager |-> mm,
     prob_output_layer |-> pol, output_calib_manager |-> ocm]

\* ClassificationPredictive(likelihood=)
ClassificationPredictive(lik) == [cls |-> "ClassificationPredictive", likelihood |-> lik]

\* The instance before __init__ has assigned anything; base_seed is << >> until
\* the base class has been initialised and <<seed>> afterwards.
NoAttributes == [model_manager |-> Null, prob_output_layer |-> Null,
                 likelihood |-> Null, predictive |-> Null, base_seed |-> << >>]

NoResult == [kind |-> "None", message |-> "", found |-> << >>]
NoArgs == << >>

Init ==
    /\ pc = "L50"
    /\ model \in Models
    /\ seed \in Seeds
    /\ heap = << >>
    /\ self = NoAttributes
    /\ calib_data_loader = << >>
    /\ val_data_loader = NoneLoader
    /\ config = "None"
    /\ log = << >>
    /\ calibrate_args = NoArgs
    /\ result = NoResult

\* line 50: self.model_manager = ClassificationModelManager(model)
InitModelManager ==
    /\ pc = "L50"
    /\ heap' = Append(heap, ClassificationModelManager(model))
    /\ self' = [self EXCEPT !.model_manager = Len(heap')]
    /\ pc' = "L51"
    /\ UNCHANGED <<model, seed>>
    /\ UNCHANGED call_vars

\* line 51: self.prob_output_layer = ClassificationProbOutputLayer()
InitProbOutputLayer ==
    /\ pc = "L51"
    /\ heap' = Append(heap, ClassificationProbOutputLayer)
    /\ self' = [self EXCEPT !.prob_output_layer = Len(heap')]
    /\ pc' = "L52"
    /\ UNCHANGED <<model, seed>>
    /\ UNCHANGED call_vars

\* InitLikelihood with the likelihood given a prob_output_layer of its own
\* instead of the instance stored on the classifier.
InitLikelihoodOwnLayer ==
    /\ pc = "L52"
    /\ heap' = heap \o <<ClassificationProbOutputLayer,
                          ClassificationLikelihood(self.model_manager, Len(heap) + 1, Null)>>
    /\ self' = [self EXCEPT !.likelihood = Len(heap')]
    /\ pc' = "L57"
    /\ UNCHANGED <<model, seed>>
    /\ UNCHANGED call_vars

\* lines 52-56: self.likelihood = ClassificationLikelihood(...)
InitLikelihood ==
    /\ pc = "L52"
    /\ heap' = Append(heap, ClassificationLikelihood(self.model_manager,
                                                     self.prob_output_layer, Null))
    /\ self' = [self EXCEPT !.likelihood = Len(heap')]
    /\ pc' = "L57"
    /\ UNCHANGED <<model, seed>>
    /\ UNCHANGED call_vars

\* lines 57-59: self.predictive = ClassificationPredictive(likelihood=self.likelihood)
InitPredictive ==
    /\ pc = "L57"
    /\ heap' = Append(heap, ClassificationPredictive(self.likelihood))
    /\ self' = [self EXCEPT !.predictive = Len(heap')]
    /\ pc' = "L60"
    /\ UNCHANGED <<model, seed>>
    /\ UNCHANGED call_vars

\* line 60: super().__init__(seed=seed)
SuperInit ==
    /\ pc = "L60"
    /\ self' = [self EXCEPT !.base_seed = <<seed>>]
    /\ pc' = "ready"
    /\ UNCHANGED <<model, seed, heap>>
    /\ UNCHANGED call_vars

\* ------------------------------------------------------- _check_output_dim

RECURSIVE to_array_targets(_)
\* DataLoader.to_array_targets(): the targets of all batches, concatenated.
to_array_targets(data_loader) ==
    IF data_loader = << >> THEN << >>
    ELSE Head(data_loader).targets \o to_array_targets(Tail(data_loader))

\* DataLoader.size: the number of data points of the loader.
size(data_loader) == Len(to_array_targets(data_loader))

\* np.unique(a): the distinct values of a.
unique(a) == {a[i] : i \in DOMAIN a}

\* CalibModel._get_output_dim(input_shape): the output dimension of the model
\* held by self.model_manager, for inputs of this shape.
_get_output_dim(input_shape) == heap[self.model_manager].model[input_shape]

ValueErrorEmpty ==
    [kind |-> "ValueError",
     message |-> "data_loader is either empty or incorrectly constructed.",
     found |-> << >>]

ValueErrorMismatch(model_manager_output_dim, data_output_dim) ==
    [kind |-> "ValueError",
     message |-> "The outputs dimension of model must correspond to the number of different classes in the target variables of _data_loader.",
     found |-> <<model_manager_output_dim, data_output_dim>>]

\* line 71 reads input_shape although the loop of lines 68-70 never assigned it.
UnboundLocalError ==
    [kind |-> "UnboundLocalError", message |-> "input_shape", found |-> << >>]

\* _check_output_dim raising only when the model has fewer outputs than the
\* data has classes.
_check_output_dim_fewer(data_loader) ==
    IF size(data_loader) = 0
    THEN [calls |-> <<"size">>, exc |-> ValueErrorEmpty]
    ELSE LET data_output_dim == Cardinality(unique(to_array_targets(data_loader)))
             model_manager_output_dim == _get_output_dim(data_loader[1].shape)
         IN  [calls |-> <<"size", "to_array_targets", "__iter__", "_get_output_dim">>,
              exc |-> IF model_manager_output_dim < data_output_dim
                      THEN ValueErrorMismatch(model_manager_output_dim, data_output_dim)
                      ELSE NoResult]

\* _check_output_dim reading the targets before it looks at the size.
_check_output_dim_targets_first(data_loader) ==
    LET data_output_dim == Cardinality(unique(to_array_targets(data_loader)))
    IN  IF size(data_loader) = 0
        THEN [calls |-> <<"to_array_targets", "size">>, exc |-> ValueErrorEmpty]
        ELSE LET model_manager_output_dim == _get_output_dim(data_loader[1].shape)
             IN  [calls |-> <<"to_array_targets", "size", "__iter__", "_get_output_dim">>,
                  exc |-> IF model_manager_output_dim # data_output_dim
                          THEN ValueErrorMismatch(model_manager_output_dim, data_output_dim)
                          ELSE NoResult]

\* _check_output_dim reporting the two numbers in the other order.
_check_output_dim_swapped(data_loader) ==
    IF size(data_loader) = 0
    THEN [calls |-> <<"size">>, exc |-> ValueErrorEmpty]
    ELSE LET data_output_dim == Cardinality(unique(to_array_targets(data_loader)))
             model_manager_output_dim == _get_output_dim(data_loader[1].shape)
         IN  [calls |-> <<"size", "to_array_targets", "__iter__", "_get_output_dim">>,
              exc |-> IF model_manager_output_dim # data_output_dim
                      THEN ValueErrorMismatch(data_output_dim, model_manager_output_dim)
                      ELSE NoResult]

\* lines 62-77. The value is the calls made on data_loader and on self, in
\* order, and the exception raised (NoResult when the check returns).
_check_output_dim(data_loader) ==
    IF size(data_loader) = 0
    THEN [calls |-> <<"size">>, exc |-> ValueErrorEmpty]
    ELSE LET data_output_dim == Cardinality(unique(to_array_targets(data_loader)))
         IN  IF Len(data_loader) = 0
             THEN [calls |-> <<"size", "to_array_targets", "__iter__">>,
                   exc |-> UnboundLocalError]
             ELSE LET input_shape == data_loader[1].shape
                      model_manager_output_dim == _get_output_dim(input_shape)
                  IN  [calls |-> <<"size", "to_array_targets", "__iter__",
                                   "_get_output_dim">>,
                       exc |-> IF model_manager_output_dim # data_output_dim
                               THEN ValueErrorMismatch(model_manager_output_dim,
                                                       data_output_dim)
                               ELSE NoResult]

\* The calls of one _check_output_dim, tagged with the argument it was given.
Tagged(calls, arg) ==
    <<[call |-> "_check_output_dim", on |-> arg]>> \o
    [i \in DOMAIN calls |-> [call |-> calls[i], on |-> arg]]

\* --------------------------------------------------------------- calibrate

\* A call of calibrate on the constructed classifier (lines 79-85).
Calibrate(c, v, cfg) ==
    /\ pc = "ready"
    /\ calib_data_loader' = c
    /\ val_data_loader' = v
    /\ config' = cfg
    /\ pc' = "L105"
    /\ UNCHANGED ctor_vars
    /\ UNCHANGED <<log, calibrate_args, result>>

\* calibrate validating val_data_loader (when given) ahead of calib_data_loader.
CheckCalibValFirst ==
    /\ pc = "L105"
    /\ LET rv == IF val_data_loader # NoneLoader
                 THEN _check_output_dim(val_data_loader[1])
                 ELSE [calls |-> << >>, exc |-> NoResult]
           lv == IF val_data_loader # NoneLoader
                 THEN Tagged(rv.calls, "val_data_loader")
                 ELSE << >>
           rc == _check_output_dim(calib_data_loader)
       IN  IF rv.exc # NoResult
           THEN /\ log' = log \o lv
                /\ result' = rv.exc
                /\ pc' = "raised"
           ELSE /\ log' = log \o lv \o Tagged(rc.calls, "calib_data_loader")
                /\ result' = rc.exc
                /\ pc' = IF rc.exc = NoResult THEN "L106" ELSE "raised"
    /\ UNCHANGED ctor_vars
    /\ UNCHANGED <<calib_data_loader, val_data_loader, config, calibrate_args>>

\* line 105: self._check_output_dim(calib_data_loader)
CheckCalib ==
    /\ pc = "L105"
    /\ LET r == _check_output_dim(calib_data_loader)
       IN  /\ log' = log \o Tagged(r.calls, "calib_data_loader")
           /\ result' = r.exc
           /\ pc' = IF r.exc = NoResult THEN "L106" ELSE "raised"
    /\ UNCHANGED ctor_vars
    /\ UNCHANGED <<calib_data_loader, val_data_loader, config, calibrate_args>>

\* lines 106-107: if val_data_loader is not None: self._check_output_dim(val_data_loader)
CheckVal ==
    /\ pc = "L106"
    /\ IF val_data_loader # NoneLoader
       THEN LET r == _check_output_dim(val_data_loader[1])
            IN  /\ log' = log \o Tagged(r.calls, "val_data_loader")
                /\ result' = r.exc
                /\ pc' = IF r.exc = NoResult THEN "L108" ELSE "raised"
       ELSE /\ pc' = "L108"
            /\ UNCHANGED <<log, result>>
    /\ UNCHANGED ctor_vars
    /\ UNCHANGED <<calib_data_loader, val_data_loader, config, calibrate_args>>

Status == [kind |-> "Status", message |-> "", found |-> << >>]

\* lines 108-115: return self._calibrate(...)
CallCalibrate ==
    /\ pc = "L108"
    /\ calibrate_args' =
           [calib_data_loader |-> calib_data_loader,
            uncertainty_fn |-> IF config # "None"
                               THEN [obj |-> Null, fn |-> config]
                               ELSE [obj |-> self.prob_output_layer, fn |-> "mean"],
            val_data_loader |-> val_data_loader,
            loss_fn |-> "focal_loss_fn",
            config |-> config]
    /\ log' = Append(log, [call |-> "_calibrate", on |-> "self"])
    /\ result' = Status
    /\ pc' = "returned"
    /\ UNCHANGED ctor_vars
    /\ UNCHANGED <<calib_data_loader, val_data_loader, config>>

\* The caller has received the Status or the exception; the frame of the call
\* is gone and the classifier can be calibrated again.
Return ==
    /\ pc \in {"returned", "raised"}
    /\ calib_data_loader' = << >>
    /\ val_data_loader' = NoneLoader
    /\ config' = "None"
    /\ log' = << >>
    /\ calibrate_args' = NoArgs
    /\ result' = NoResult
    /\ pc' = "ready"
    /\ UNCHANGED ctor_vars

Next ==
    \/ InitModelManager
    \/ InitProbOutputLayer
    \/ InitLikelihood
    \/ InitPredictive
    \/ SuperInit
    \/ /\ pc = "ready"
       /\ \E c \in DataLoaders, v \in OptionalDataLoaders, cfg \in UncertaintyFns :
              Calibrate(c, v, cfg)
    \/ CheckCalib
    \/ CheckVal
    \/ CallCalibrate
    \/ Return

Spec == Init /\ [][Next]_vars

\* ------------------------------------------------------------- properties

\* A call of calibrate is in progress or has just ended.
InCall == pc \in {"L105", "L106", "L108", "returned", "raised"}

\* The call of calibrate has ended: it returned a Status or raised.
Ended == pc \in {"returned", "raised"}

\* The call `call` has been made on the argument `arg` during this calibrate.
Made(call, arg) == \E i \in DOMAIN log : log[i] = [call |-> call, on |-> arg]

\* The number of _check_output_dim calls made during this calibrate.
NumChecks == Cardinality({i \in DOMAIN log : log[i].call = "_check_output_dim"})

CalibrateReached == Made("_calibrate", "self")

\* The data loaders passed to calibrate, each with the name of its parameter.
Passed ==
    {<<"calib_data_loader", calib_data_loader>>} \cup
    (IF val_data_loader # NoneLoader
     THEN {<<"val_data_loader", val_data_loader[1]>>} ELSE {})

\* The data loader has no data point.
IsEmpty(dl) == \A i \in DOMAIN dl : dl[i].targets = << >>

\* The number of distinct target values of the data loader.
NumClasses(dl) ==
    Cardinality({l \in Labels : \E i \in DOMAIN dl :
                                  \E j \in DOMAIN dl[i].targets : dl[i].targets[j] = l})

\* The output dimension of the constructor's model on the inputs of a loader
\* that has a batch.
ModelOutputDim(dl) == model[dl[1].shape]

Mismatched(dl) == ~IsEmpty(dl) /\ ModelOutputDim(dl) # NumClasses(dl)

Valid(dl) == ~IsEmpty(dl) /\ ModelOutputDim(dl) = NumClasses(dl)

\* The error the documentation of the check assigns to a loader on its own.
ErrorOf(dl) ==
    IF IsEmpty(dl) THEN ValueErrorEmpty
    ELSE IF Mismatched(dl)
         THEN ValueErrorMismatch(ModelOutputDim(dl), NumClasses(dl))
         ELSE NoResult

\* The loader named n is the first one calibrate finds invalid, if it is invalid.
ReachedFirst(n) == n = "calib_data_loader" \/ Valid(calib_data_loader)

\* C1: _calibrate is invoked only when the model's output dimension equals the
\* number of distinct target values of calib_data_loader and, when
\* val_data_loader is not None, of val_data_loader as well.
C1_CalibrateOnlyOnMatchingDims ==
    CalibrateReached =>
        \A p \in Passed : ~IsEmpty(p[2]) /\ ModelOutputDim(p[2]) = NumClasses(p[2])

\* C1 witness: _calibrate was invoked with a two-class calibration loader and
\* a different validation loader.
C1_Witness ==
    /\ CalibrateReached
    /\ val_data_loader # NoneLoader
    /\ val_data_loader[1] # calib_data_loader
    /\ NumClasses(calib_data_loader) = 2

\* C2 as stated: whenever a loader passed to calibrate is empty, calibrate
\* fails with the ValueError "either empty or incorrectly constructed", and
\* that loader's targets are not read, none of its batches is iterated and
\* _calibrate is not invoked.
C2_EmptyLoaderAlwaysEmptyError ==
    \A p \in Passed :
        (InCall /\ IsEmpty(p[2])) =>
            /\ ~Made("to_array_targets", p[1])
            /\ ~Made("__iter__", p[1])
            /\ ~CalibrateReached
            /\ Ended => result = ValueErrorEmpty

\* C2 amended: whenever a loader passed to calibrate is empty, calibrate fails
\* with a ValueError, that loader's targets are not read, none of its batches
\* is iterated and _calibrate is not invoked; the ValueError is the "either
\* empty or incorrectly constructed" one when the empty loader is
\* calib_data_loader, or is val_data_loader and calib_data_loader passes its
\* check, and is the error of calib_data_loader's check otherwise.
C2_EmptyLoaderFails ==
    \A p \in Passed :
        (InCall /\ IsEmpty(p[2])) =>
            /\ ~Made("to_array_targets", p[1])
            /\ ~Made("__iter__", p[1])
            /\ ~CalibrateReached
            /\ pc # "returned"
            /\ Ended => /\ result.kind = "ValueError"
                        /\ ReachedFirst(p[1]) => result = ValueErrorEmpty
                        /\ ~ReachedFirst(p[1]) => result = ErrorOf(calib_data_loader)

\* C2 witness: calibrate has raised on an empty validation loader (one batch
\* with no row) after the calibration loader passed its check.
C2_Witness ==
    /\ pc = "raised"
    /\ Valid(calib_data_loader)
    /\ val_data_loader # NoneLoader
    /\ Len(val_data_loader[1]) = 1
    /\ IsEmpty(val_data_loader[1])
    /\ Made("size", "val_data_loader")
    /\ result = ValueErrorEmpty

\* C3 as stated: whenever the model's output dimension differs from the
\* number of distinct target values of a non-empty loader passed to
\* calibrate, calibrate fails with the ValueError that reports these two
\* numbers, _calibrate is never invoked and no Status is returned.
C3_MismatchAlwaysReportsBothNumbers ==
    \A p \in Passed :
        (InCall /\ Mismatched(p[2])) =>
            /\ ~CalibrateReached
            /\ result # Status
            /\ Ended => result = ValueErrorMismatch(ModelOutputDim(p[2]), NumClasses(p[2]))

\* C3 amended: whenever the model's output dimension differs from the number
\* of distinct target values of a non-empty loader passed to calibrate,
\* calibrate fails with a ValueError, _calibrate is never invoked and no
\* Status is returned; the ValueError reports the two numbers of that loader
\* when the loader is calib_data_loader, or is val_data_loader and
\* calib_data_loader passes its check, and is the error of
\* calib_data_loader's check otherwise.
C3_MismatchFails ==
    \A p \in Passed :
        (InCall /\ Mismatched(p[2])) =>
            /\ ~CalibrateReached
            /\ result # Status
            /\ pc # "returned"
            /\ Ended =>
                /\ result.kind = "ValueError"
                /\ ReachedFirst(p[1]) =>
                       result = ValueErrorMismatch(ModelOutputDim(p[2]), NumClasses(p[2]))
                /\ ~ReachedFirst(p[1]) => result = ErrorOf(calib_data_loader)

\* C3 witness: calibrate has raised the mismatch error of a validation loader
\* with two classes under a model that gives one output for its inputs.
C3_Witness ==
    /\ pc = "raised"
    /\ Valid(calib_data_loader)
    /\ val_data_loader # NoneLoader
    /\ Mismatched(val_data_loader[1])
    /\ result = ValueErrorMismatch(1, 2)
    /\ Made("_get_output_dim", "val_data_loader")

\* C4: the likelihood is built from the model_manager and prob_output_layer
\* instances stored on the classifier (the model manager holding the user's
\* model) with output_calib_manager None, the predictive is built from the
\* stored likelihood, and the base class is initialised, with the given seed,
\* only once all four attributes are set.
C4_ConstructorWiring ==
    /\ self.model_manager # Null =>
           heap[self.model_manager] = ClassificationModelManager(model)
    /\ self.likelihood # Null =>
           /\ self.model_manager # Null
           /\ self.prob_output_layer # Null
           /\ heap[self.prob_output_layer].cls = "ClassificationProbOutputLayer"
           /\ heap[self.likelihood].cls = "ClassificationLikelihood"
           /\ heap[self.likelihood].model_manager = self.model_manager
           /\ heap[self.likelihood].prob_output_layer = self.prob_output_layer
           /\ heap[self.likelihood].output_calib_manager = Null
    /\ self.predictive # Null =>
           /\ self.likelihood # Null
           /\ heap[self.predictive].cls = "ClassificationPredictive"
           /\ heap[self.predictive].likelihood = self.likelihood
    /\ self.base_seed # << >> =>
           /\ self.base_seed = <<seed>>
           /\ self.model_manager # Null
           /\ self.prob_output_layer # Null
           /\ self.likelihood # Null
           /\ self.predictive # Null
    /\ pc \notin {"L50", "L51", "L52", "L57", "L60"} => self.base_seed # << >>

\* C4 witness: the constructor has finished with a seed other than the default.
C4_Witness ==
    /\ pc = "ready"
    /\ seed = 1
    /\ self.base_seed = <<1>>
    /\ self.predictive # Null

====
